---- MODULE Spec2Model ----
(***************************************************************************)
(* A model of later (src/later/__main__.py): the DeferredDict two-level    *)
(* lookup, the WeekdayTask record with its formatted_date property, and    *)
(* render_template.  The process-wide locale (locale.setlocale) and the    *)
(* system clock (datetime.date.today) are the only state shared between    *)
(* calls.                                                                  *)
(*                                                                         *)
(* A Python dict is a function with a finite domain; an insertion-ordered  *)
(* dict that the code iterates (week_tasks) is a sequence of [key, value]  *)
(* records with distinct keys.  A call's outcome is a record               *)
(* [kind |-> "value", value |-> v] or [kind |-> "raise", exc |-> e].       *)
(***************************************************************************)
EXTENDS Integers, Sequences, FiniteSets, TLC

VARIABLES
    procLocale,   \* the process-wide locale (LC_ALL)
    today,        \* datetime.date.today(), as a proleptic Gregorian ordinal
    th,           \* the threads of the process, each running one call
    ref,          \* a completed render kept for comparison with later ones
    dd,           \* a DeferredDict ([data, parent_data]) read directly
    got           \* the last direct lookup on dd

vars == <<procLocale, today, th, ref, dd, got>>

----------------------------------------------------------------------------
(* Bounds *)

\* variable values range over 1..MaxVal
MaxVal == 2

\* the first day the system clock may show (2026-11-02, a Monday)
TodayBase == 739922

\* the clock shows one of DaySpan consecutive days
DaySpan == 7

\* week offsets range over -MaxOffset..MaxOffset
MaxOffset == 2

\* a document declares at most MaxTasks week tasks
MaxTasks == 2

\* a template holds at most MaxTemplateLen expressions
MaxTemplateLen == 2

\* the clock moves on at most MaxTicks days while the process runs
MaxTicks == 1

----------------------------------------------------------------------------
(* Values *)

Keys == {"a", "b", "c"}

Values == 1..MaxVal

\* every dict whose keys are among K and whose values are in V
Dicts(K, V) == UNION {[D -> V] : D \in SUBSET K}

EmptyDict == [k \in {} |-> 0]

Value(v) == [kind |-> "value", value |-> v]

Raise(e) == [kind |-> "raise", exc |-> e]

None == [kind |-> "none"]

Days == TodayBase..(TodayBase + DaySpan - 1)

WeekOffsets == (0 - MaxOffset)..MaxOffset

\* the locales installed on the host; "C" is the locale a process starts in
Installed == {"C", "en_US", "es_ES"}

\* locale identifiers a caller may pass
Locales == {"en_US", "es_ES", "xx_XX"}

\* weekday names a document may use as keys
Names == {"monday", "tuesday", "wednesday", "thursday", "friday", "saturday",
          "sunday", "Monday", "someday"}

\* the restriction of dict d to the keys in D
Restrict(d, D) == [k \in D |-> d[k]]

\* dict.get(key, default)
DictGet(d, key, default) == IF key \in DOMAIN d THEN d[key] ELSE default

----------------------------------------------------------------------------
(* DeferredDict *)

\* dict.__getitem__: d[key]
DictGetItem(d, key) ==
    IF key \in DOMAIN d THEN Value(d[key]) ELSE Raise("KeyError")

\* DeferredDict(data, parent_data)
DeferredDict(data, parent_data) == [data |-> data, parent_data |-> parent_data]

\* a lookup that searches the parent first
GetItemParentFirst(self, key) ==
    IF key \in DOMAIN self.parent_data
    THEN Value(self.parent_data[key])
    ELSE DictGetItem(self.data, key)

\* DeferredDict.__getitem__
GetItem(self, key) ==
    IF key \in DOMAIN self.data
    THEN Value(self.data[key])
    ELSE DictGetItem(self.parent_data, key)

\* the DeferredDict after a lookup: __getitem__ assigns nothing
AfterGetItem(self, key) == self

----------------------------------------------------------------------------
(* Direct lookups on a DeferredDict *)

NoThreads == [t \in {} |-> None]

InitLookup ==
    /\ dd \in {DeferredDict(d, p) : d \in Dicts(Keys, Values), p \in Dicts(Keys, Values)}
    /\ got = None
    /\ procLocale = "C"
    /\ today = 0
    /\ th = NoThreads
    /\ ref = None

\* dd[key], called directly
Lookup(key) ==
    /\ got' = [kind |-> "lookup", key |-> key, res |-> GetItem(dd, key), self |-> dd]
    /\ dd' = AfterGetItem(dd, key)
    /\ UNCHANGED <<procLocale, today, th, ref>>

NextLookup == \E key \in Keys : Lookup(key)

SpecLookup == InitLookup /\ [][NextLookup]_vars

\* C1: a lookup returns the task-local value when the key is task-local (also
\* when the document has the key too), the document value when only the
\* document has the key, fails with KeyError when neither has it, and leaves
\* both mappings as they were.
C1_LookupOrder ==
    got.kind = "lookup" =>
        LET k == got.key
            primary == got.self.data
            fallback == got.self.parent_data
        IN  /\ k \in DOMAIN primary => got.res = Value(primary[k])
            /\ k \notin DOMAIN primary /\ k \in DOMAIN fallback
                  => got.res = Value(fallback[k])
            /\ k \notin DOMAIN primary /\ k \notin DOMAIN fallback
                  => got.res = Raise("KeyError")
            /\ dd = got.self

\* a lookup of a key both mappings hold, with different values, has returned
C1_Witness ==
    /\ got.kind = "lookup"
    /\ got.key \in DOMAIN dd.data \cap DOMAIN dd.parent_data
    /\ dd.data[got.key] # dd.parent_data[got.key]
    /\ \E k \in Keys : k \notin DOMAIN dd.data /\ k \in DOMAIN dd.parent_data
    /\ \E k \in Keys : k \notin DOMAIN dd.data /\ k \notin DOMAIN dd.parent_data

----------------------------------------------------------------------------
(* WeekdayTask *)

WEEKDAY_MAP ==
    [w \in {"monday", "tuesday", "wednesday", "thursday", "friday", "saturday",
            "sunday"} |->
        CASE w = "monday" -> 0
          [] w = "tuesday" -> 1
          [] w = "wednesday" -> 2
          [] w = "thursday" -> 3
          [] w = "friday" -> 4
          [] w = "saturday" -> 5
          [] w = "sunday" -> 6]

\* datetime.date.weekday(): Monday is 0, Sunday is 6; ordinal 1 is a Monday
Weekday(d) == (d + 6) % 7

\* WeekdayTask.__init__: parent_data["variables"] raises KeyError when absent
NewWeekdayTask(weekday, data, parent_data, week_offset, loc) ==
    IF "variables" \notin DOMAIN parent_data
    THEN Raise("KeyError")
    ELSE Value([weekday |-> weekday,
                start_time |-> DictGet(data, "start_time", "00:00"),
                end_time |-> DictGet(data, "end_time", "00:00"),
                variables |-> DeferredDict(DictGet(data, "variables", EmptyDict),
                                           parent_data["variables"]),
                week_offset |-> week_offset,
                locale |-> loc])

\* the date of a task when the week offset is added as days
TaskDateOffsetInDays(self, now) ==
    IF self.weekday \notin DOMAIN WEEKDAY_MAP
    THEN Raise("KeyError")
    ELSE LET week == now + self.week_offset
             first_day == week - Weekday(week)
         IN  Value(first_day + WEEKDAY_MAP[self.weekday])

\* the date of a task when the week is taken to start on Sunday
TaskDateSundayFirst(self, now) ==
    IF self.weekday \notin DOMAIN WEEKDAY_MAP
    THEN Raise("KeyError")
    ELSE LET week == now + 7 * self.week_offset
             first_day == week - ((Weekday(week) + 1) % 7)
         IN  Value(first_day + WEEKDAY_MAP[self.weekday])

\* the date of a task when a weekday missing from the map counts as Monday
TaskDateDefaulting(self, now) ==
    LET week == now + 7 * self.week_offset
        first_day == week - Weekday(week)
    IN  Value(first_day + DictGet(WEEKDAY_MAP, self.weekday, 0))

\* formatted_date, lines 70-82: the date of the task, or KeyError for a
\* weekday that WEEKDAY_MAP does not hold
TaskDate(self, now) ==
    LET week == now + 7 * self.week_offset
        first_day == week - Weekday(week)
    IN  IF self.weekday \notin DOMAIN WEEKDAY_MAP
        THEN Raise("KeyError")
        ELSE Value(first_day + WEEKDAY_MAP[self.weekday])

\* the language of a locale's day and month names
Lang(loc) == IF loc = "es_ES" THEN "es" ELSE "en"

\* date.strftime("%A, %-d %B") under the process locale loc: the names are
\* those of the locale's language, capitalised in English and not in Spanish
Strftime(date, loc) ==
    [kind |-> "date", lang |-> Lang(loc), date |-> date, upper |-> (Lang(loc) = "en")]

\* date_text[0].upper() + date_text[1:]
Capitalize(text) == [text EXCEPT !.upper = TRUE]

\* the process locale after a call that skips the default locale en_US
LocaleSetUnlessDefault(cur, loc) == IF loc = "en_US" THEN cur ELSE loc

\* the process locale after a call that leaves the locale alone
LocaleKept(cur, loc) == cur

\* the process locale after locale.setlocale(locale.LC_ALL, loc) succeeds
LocaleAfterSet(cur, loc) == loc

----------------------------------------------------------------------------
(* Threads.  A thread runs one call at a time: prog "task" constructs a      *)
(* WeekdayTask and reads its formatted_date; prog "render" runs             *)
(* render_template.  pc is the line the call has reached, tasks the tasks   *)
(* constructed so far, pos and out the template engine's position and       *)
(* output, fd the frame of the formatted_date being read (kept after the    *)
(* read), res the outcome of the call, engine whether the template engine   *)
(* was invoked, and used the (task locale, process locale at strftime)      *)
(* pairs of the dates the call has formatted.  descr and variables are the  *)
(* locals tasks_descriptors and variables of render_template.  entry and    *)
(* day0 are the process locale and the day when the call began, and alone   *)
(* tells that no other call was in flight at any time during this one.      *)

Thread(prog, pc, args) ==
    [prog |-> prog, pc |-> pc, args |-> args, descr |-> <<>>, tasks |-> <<>>,
     variables |-> <<>>, pos |-> 1, out |-> <<>>, fd |-> None, res |-> None,
     engine |-> FALSE, used |-> {}, entry |-> "C", day0 |-> 0, alone |-> TRUE]

IdleThread == Thread("none", "idle", None)

\* thread t is inside a call
InFlight(t) == th[t].pc \notin {"idle", "returned", "raised"}

\* an exception leaves the call: nothing in render_template or WeekdayTask
\* catches it
Unwind(self, e) == [self EXCEPT !.pc = "raised", !.res = Raise(e)]

\* task = WeekdayTask(weekday, data, parent_data, week_offset, locale)
NewTask(t) ==
    /\ th[t].pc = "new"
    /\ LET a == th[t].args
           r == NewWeekdayTask(a.weekday, a.data, a.parent_data, a.week_offset, a.locale)
       IN  th' = [th EXCEPT ![t] =
                    IF r.kind = "raise" THEN Unwind(@, r.exc)
                    ELSE [@ EXCEPT !.tasks = <<r.value>>, !.pc = "made"]]
    /\ UNCHANGED <<procLocale, today, ref, dd, got>>

\* task.formatted_date, read by the caller of WeekdayTask
TaskRead(t) ==
    /\ th[t].pc = "made"
    /\ th' = [th EXCEPT ![t] = [@ EXCEPT !.pc = "fd_date", !.fd = [i |-> 1]]]
    /\ UNCHANGED <<procLocale, today, ref, dd, got>>

\* formatted_date, lines 70-82
FdDate(t) ==
    /\ th[t].pc = "fd_date"
    /\ LET self == th[t].tasks[th[t].fd.i]
           r == TaskDate(self, today)
       IN  th' = [th EXCEPT ![t] =
                    IF r.kind = "raise" THEN Unwind(@, r.exc)
                    ELSE [@ EXCEPT !.pc = "fd_setlocale",
                                   !.fd = [i |-> th[t].fd.i, now |-> today,
                                           date |-> r.value]]]
    /\ UNCHANGED <<procLocale, today, ref, dd, got>>

\* formatted_date, line 84: locale.Error when the locale is not installed
FdSetLocale(t) ==
    /\ th[t].pc = "fd_setlocale"
    /\ LET self == th[t].tasks[th[t].fd.i]
       IN  IF self.locale \in Installed
           THEN /\ procLocale' = LocaleAfterSet(procLocale, self.locale)
                /\ th' = [th EXCEPT ![t] = [@ EXCEPT !.pc = "fd_strftime"]]
           ELSE /\ procLocale' = procLocale
                /\ th' = [th EXCEPT ![t] = Unwind(@, "locale.Error")]
    /\ UNCHANGED <<today, ref, dd, got>>

\* formatted_date, line 88
FdStrftime(t) ==
    /\ th[t].pc = "fd_strftime"
    /\ LET self == th[t].tasks[th[t].fd.i]
       IN  th' = [th EXCEPT ![t] =
                    [@ EXCEPT !.pc = "fd_return",
                              !.fd = [i |-> th[t].fd.i, now |-> th[t].fd.now,
                                      date |-> th[t].fd.date,
                                      text |-> Strftime(th[t].fd.date, procLocale)],
                              !.used = @ \cup {<<self.locale, procLocale>>}]]
    /\ UNCHANGED <<procLocale, today, ref, dd, got>>

\* formatted_date, lines 91-93: the text goes to the reader, the caller of
\* WeekdayTask or the template engine
FdReturn(t) ==
    /\ th[t].pc = "fd_return"
    /\ LET text == Capitalize(th[t].fd.text)
       IN  th' = [th EXCEPT ![t] =
                    IF th[t].prog = "task"
                    THEN [@ EXCEPT !.pc = "made", !.res = Value(text)]
                    ELSE [@ EXCEPT !.pc = "eval", !.out = Append(@, text),
                                   !.pos = @ + 1]]
    /\ UNCHANGED <<procLocale, today, ref, dd, got>>

----------------------------------------------------------------------------
(* render_template.  A template is the sequence of the expressions it       *)
(* prints: week_tasks[i].name, week_tasks[i].variables[key],                *)
(* variables[key] and len(week_tasks).  Tasks are numbered from 1 here and  *)
(* from 0 in a template.                                                    *)

Str(s) == [kind |-> "str", s |-> s]

Num(n) == [kind |-> "int", n |-> n]

Attr(i, name) == [op |-> "attr", i |-> i, name |-> name]

Var(i, key) == [op |-> "var", i |-> i, key |-> key]

DocVar(key) == [op |-> "docvar", key |-> key]

LenCall == [op |-> "len"]

\* a top-level key of the document that is read with a default
OptionalField(data, name) == Value(DictGet(data, name, <<>>))

\* data["week_tasks"], data["variables"]: KeyError when the key is absent
RequiredField(data, name) == DictGetItem(data, name)

\* the task list with the new task put first
TasksPrepend(tasks, task) == <<task>> \o tasks

\* the list comprehension of lines 117-120 collects the tasks in the order
\* of tasks_descriptors.items()
TasksAppend(tasks, task) == Append(tasks, task)

\* The template engine's subscript and attribute lookup (jinja2
\* Environment.getitem and getattr, reached from template_ob.render): a
\* LookupError raised by the lookup is caught and the expression evaluates
\* to Undefined, which prints as the empty string.
Subscript(r) == IF r.kind = "raise" THEN Value(Str("")) ELSE Value(Num(r.value))

\* one expression of the template other than a formatted_date that is read;
\* week_tasks[i] past the end is Undefined, and an attribute of Undefined
\* raises UndefinedError
EvalItem(self, item) ==
    CASE item.op = "len" -> Value(Num(Len(self.tasks)))
      [] item.op = "docvar" ->
            Subscript(DictGetItem(self.variables, item.key))
      [] item.op = "var" ->
            IF item.i > Len(self.tasks) THEN Raise("UndefinedError")
            ELSE Subscript(GetItem(self.tasks[item.i].variables, item.key))
      [] item.op = "attr" ->
            IF item.i > Len(self.tasks) THEN Raise("UndefinedError")
            ELSE Value(Str(self.tasks[item.i][item.name]))

\* the expression at the engine's position reads formatted_date of a task
ReadsFormattedDate(self) ==
    /\ self.pos <= Len(self.args.template)
    /\ LET item == self.args.template[self.pos]
       IN  /\ item.op = "attr"
           /\ item.name = "formatted_date"
           /\ item.i <= Len(self.tasks)

\* render_template(template, data, locale, week_offset) is called
Call(t, a) ==
    /\ th[t].pc = "idle"
    /\ th' = [u \in DOMAIN th |->
                IF u = t
                THEN [Thread("render", "r114", a) EXCEPT
                        !.entry = procLocale, !.day0 = today,
                        !.alone = \A v \in DOMAIN th \ {t} : ~InFlight(v)]
                ELSE IF InFlight(u) THEN [th[u] EXCEPT !.alone = FALSE] ELSE th[u]]
    /\ UNCHANGED <<procLocale, today, ref, dd, got>>

\* line 114
RenderWeekTasks(t) ==
    /\ th[t].pc = "r114"
    /\ LET r == RequiredField(th[t].args.data, "week_tasks")
       IN  th' = [th EXCEPT ![t] =
                    IF r.kind = "raise" THEN Unwind(@, r.exc)
                    ELSE [@ EXCEPT !.pc = "construct", !.descr = r.value]]
    /\ UNCHANGED <<procLocale, today, ref, dd, got>>

\* lines 117-120, one iteration
RenderConstruct(t) ==
    /\ th[t].pc = "construct"
    /\ LET a == th[t].args
           descriptors == th[t].descr
       IN  /\ Len(th[t].tasks) < Len(descriptors)
           /\ LET entry == descriptors[Len(th[t].tasks) + 1]
                  r == NewWeekdayTask(entry.key, entry.value, a.data,
                                      a.week_offset, a.locale)
              IN  th' = [th EXCEPT ![t] =
                           IF r.kind = "raise" THEN Unwind(@, r.exc)
                           ELSE [@ EXCEPT !.tasks = TasksAppend(@, r.value)]]
    /\ UNCHANGED <<procLocale, today, ref, dd, got>>

\* the end of the comprehension and line 122
RenderVariables(t) ==
    /\ th[t].pc = "construct"
    /\ Len(th[t].tasks) = Len(th[t].descr)
    /\ LET r == RequiredField(th[t].args.data, "variables")
       IN  th' = [th EXCEPT ![t] =
                    IF r.kind = "raise" THEN Unwind(@, r.exc)
                    ELSE [@ EXCEPT !.pc = "compile", !.variables = r.value]]
    /\ UNCHANGED <<procLocale, today, ref, dd, got>>

\* line 125: the template engine compiles the template
RenderCompile(t) ==
    /\ th[t].pc = "compile"
    /\ th' = [th EXCEPT ![t] = [@ EXCEPT !.pc = "eval", !.engine = TRUE]]
    /\ UNCHANGED <<procLocale, today, ref, dd, got>>

\* lines 127-131: the engine evaluates the next expression
RenderItem(t) ==
    /\ th[t].pc = "eval"
    /\ th[t].pos <= Len(th[t].args.template)
    /\ ~ReadsFormattedDate(th[t])
    /\ LET r == EvalItem(th[t], th[t].args.template[th[t].pos])
       IN  th' = [th EXCEPT ![t] =
                    IF r.kind = "raise" THEN Unwind(@, r.exc)
                    ELSE [@ EXCEPT !.out = Append(@, r.value), !.pos = @ + 1]]
    /\ UNCHANGED <<procLocale, today, ref, dd, got>>

\* lines 127-131: the next expression reads week_tasks[i].formatted_date
RenderRead(t) ==
    /\ th[t].pc = "eval"
    /\ ReadsFormattedDate(th[t])
    /\ th' = [th EXCEPT ![t] =
                [@ EXCEPT !.pc = "fd_date",
                          !.fd = [i |-> th[t].args.template[th[t].pos].i]]]
    /\ UNCHANGED <<procLocale, today, ref, dd, got>>

\* lines 127-131: the engine returns the text
RenderReturn(t) ==
    /\ th[t].pc = "eval"
    /\ th[t].pos > Len(th[t].args.template)
    /\ th' = [th EXCEPT ![t] = [@ EXCEPT !.pc = "returned", !.res = Value(th[t].out)]]
    /\ UNCHANGED <<procLocale, today, ref, dd, got>>

\* sequences over S of length at most n
SeqUpTo(S, n) == UNION {[1..m -> S] : m \in 0..n}

\* an insertion-ordered dict: its keys are distinct
DistinctKeys(entries) ==
    \A i, j \in 1..Len(entries) : i # j => entries[i].key # entries[j].key

----------------------------------------------------------------------------
(* A WeekdayTask used directly *)

\* a task descriptor that sets every field
FullDescriptor ==
    [start_time |-> "09:00", end_time |-> "17:00", variables |-> [b |-> 2]]

TaskArgs ==
    [weekday : Names,
     data : {EmptyDict, FullDescriptor},
     parent_data : {EmptyDict, [variables |-> [a |-> 1]]},
     week_offset : WeekOffsets,
     locale : Locales]

InitDate ==
    /\ today \in Days
    /\ procLocale = "C"
    /\ th \in [{1} -> {Thread("task", "new", a) : a \in TaskArgs}]
    /\ ref = None
    /\ dd = DeferredDict(EmptyDict, EmptyDict)
    /\ got = None

NextDate == NewTask(1) \/ TaskRead(1) \/ FdDate(1) \/ FdSetLocale(1)
               \/ FdStrftime(1) \/ FdReturn(1)

SpecDate == InitDate /\ [][NextDate]_vars

\* the seven recognized weekday names
Recognized == {"monday", "tuesday", "wednesday", "thursday", "friday", "saturday",
               "sunday"}

\* the ordinal the specification gives each recognized name
Ordinal(w) ==
    CASE w = "monday" -> 0 [] w = "tuesday" -> 1 [] w = "wednesday" -> 2
      [] w = "thursday" -> 3 [] w = "friday" -> 4 [] w = "saturday" -> 5
      [] w = "sunday" -> 6

\* thread t has computed the date of the formatted_date it last read
HasDate(t) == "date" \in DOMAIN th[t].fd

\* C2: the date computed for weekday w and offset k is
\* (today + 7k) - weekday(today + 7k) + ordinal(w); for monday it is today
\* minus today's weekday ordinal with offset 0, that date plus 7 days with
\* offset 1 and that date minus 7 days with offset -1.
C2_ComputedDate ==
    \A t \in DOMAIN th :
        HasDate(t) =>
            LET f == th[t].fd
                self == th[t].tasks[f.i]
                k == self.week_offset
                monday0 == f.now - Weekday(f.now)
            IN  /\ self.weekday \in Recognized
                /\ f.date = (f.now + 7 * k) - Weekday(f.now + 7 * k) + Ordinal(self.weekday)
                /\ self.weekday = "monday" /\ k = 0 => f.date = monday0
                /\ self.weekday = "monday" /\ k = 1 => f.date = monday0 + 7
                /\ self.weekday = "monday" /\ k = 0 - 1 => f.date = monday0 - 7

\* the date of a monday task of last week was computed on a day that is not
\* a Monday
C2_Witness ==
    /\ HasDate(1)
    /\ th[1].tasks[1].weekday = "monday"
    /\ th[1].tasks[1].week_offset = 0 - 1
    /\ Weekday(th[1].fd.now) = 3
    /\ th[1].fd.date = th[1].fd.now - 10

\* C3: reading formatted_date of a constructed task fails with KeyError at
\* the weekday lookup exactly when the name is not one of the seven
\* recognized lowercase names: a recognized name never fails so, and any
\* other name (also "Monday") yields no date and no text, only KeyError.
C3_UnknownWeekday ==
    \A t \in DOMAIN th :
        (th[t].prog = "task" /\ th[t].tasks # <<>>) =>
            LET self == th[t].tasks[1]
            IN  /\ self.weekday \in Recognized => th[t].res # Raise("KeyError")
                /\ self.weekday \notin Recognized =>
                      /\ ~HasDate(t)
                      /\ th[t].res.kind # "value"
                      /\ th[t].pc \in {"made", "fd_date", "raised"}
                      /\ th[t].pc = "raised" => th[t].res = Raise("KeyError")
                      /\ th[t].pc = "made" => th[t].fd = None

\* the read of formatted_date on a task named "Monday" has failed
C3_Witness ==
    /\ th[1].prog = "task"
    /\ th[1].tasks # <<>>
    /\ th[1].tasks[1].weekday = "Monday"
    /\ th[1].pc = "raised"
    /\ th[1].res = Raise("KeyError")

\* C10: the computed date falls on the weekday the task names and lies in
\* the Monday-to-Sunday week that contains today + 7 * week_offset; the
\* dates of the other weekdays of that week are ordered as their ordinals.
C10_DateInTargetWeek ==
    \A t \in DOMAIN th :
        HasDate(t) =>
            LET f == th[t].fd
                self == th[t].tasks[f.i]
                anchor == f.now + 7 * self.week_offset
                monday == anchor - Weekday(anchor)
            IN  /\ Weekday(f.date) = Ordinal(self.weekday)
                /\ Weekday(monday) = 0
                /\ monday <= anchor /\ anchor <= monday + 6
                /\ monday <= f.date /\ f.date <= monday + 6
                /\ \A w \in Recognized :
                      LET other == TaskDate([self EXCEPT !.weekday = w], f.now)
                      IN  /\ other.kind = "value"
                          /\ other.value < f.date <=> Ordinal(w) < Ordinal(self.weekday)
                          /\ other.value = f.date <=> w = self.weekday

\* a sunday task two weeks back, computed on a Wednesday: the date lies after
\* the anchor day, eleven days before today
C10_Witness ==
    /\ HasDate(1)
    /\ th[1].tasks[1].weekday = "sunday"
    /\ th[1].tasks[1].week_offset = 0 - 2
    /\ Weekday(th[1].fd.now) = 2
    /\ th[1].fd.date = th[1].fd.now - 10

----------------------------------------------------------------------------
(* One render_template call *)

WeekTasksDicts ==
    {e \in SeqUpTo([key : {"monday", "sunday", "Monday"},
                    value : {EmptyDict, FullDescriptor}], MaxTasks) :
        DistinctKeys(e)}

Documents ==
    LET full == {[week_tasks |-> e, variables |-> v] :
                    e \in WeekTasksDicts, v \in {[a |-> 1, b |-> 1]}}
    IN  UNION {{d, Restrict(d, {"week_tasks"})} : d \in full}
            \cup {EmptyDict, [variables |-> [a |-> 1, b |-> 1]]}

Items ==
    {Attr(1, "weekday"), Attr(1, "start_time"), Attr(1, "formatted_date"),
     Attr(2, "formatted_date"), Var(1, "b"), Var(1, "c"), DocVar("a"), LenCall}

Templates == SeqUpTo(Items, MaxTemplateLen)

RenderArgs ==
    [template : Templates, data : Documents, locale : {"es_ES", "xx_XX"},
     week_offset : {0 - 1, 1}]

InitRender ==
    /\ today = TodayBase
    /\ procLocale = "C"
    /\ th = [t \in {1} |-> IdleThread]
    /\ ref = None
    /\ dd = DeferredDict(EmptyDict, EmptyDict)
    /\ got = None

\* the caller passes any of the bounded arguments
CallRender(t) ==
    /\ th[t].pc = "idle"
    /\ \E a \in RenderArgs : Call(t, a)

NextRender ==
    \/ CallRender(1)
    \/ RenderWeekTasks(1) \/ RenderConstruct(1) \/ RenderVariables(1)
    \/ RenderCompile(1) \/ RenderItem(1) \/ RenderRead(1) \/ RenderReturn(1)
    \/ FdDate(1) \/ FdSetLocale(1) \/ FdStrftime(1) \/ FdReturn(1)

SpecRender == InitRender /\ [][NextRender]_vars

\* thread t runs render_template
Rendering(t) == th[t].prog = "render"

\* C4: a render of a document that lacks week_tasks or lacks variables
\* (with week_tasks empty or not) ends in KeyError, the missing-field
\* error, and never reaches the template engine: nothing is compiled,
\* evaluated or returned.  Without week_tasks it fails at line 114, and
\* without variables no task is ever built.
C4_MissingFieldBeforeEngine ==
    \A t \in DOMAIN th :
        (/\ Rendering(t)
         /\ \/ "week_tasks" \notin DOMAIN th[t].args.data
            \/ "variables" \notin DOMAIN th[t].args.data) =>
            /\ th[t].engine = FALSE
            /\ th[t].pc \in {"r114", "construct", "raised"}
            /\ th[t].pc = "raised" => th[t].res = Raise("KeyError")
            /\ th[t].res.kind # "value"
            /\ th[t].out = <<>> /\ th[t].pos = 1 /\ th[t].fd = None
            /\ "week_tasks" \notin DOMAIN th[t].args.data => th[t].pc \in {"r114", "raised"}
            /\ "variables" \notin DOMAIN th[t].args.data => th[t].tasks = <<>>

\* a document with an empty week_tasks and no variables has failed
C4_Witness ==
    /\ Rendering(1)
    /\ DOMAIN th[1].args.data = {"week_tasks"}
    /\ th[1].args.data["week_tasks"] = <<>>
    /\ th[1].args.template # <<>>
    /\ th[1].pc = "raised"
    /\ th[1].res = Raise("KeyError")

\* the task the document's i-th entry must produce in call a
ExpectedTask(a, i) ==
    LET entry == a.data["week_tasks"][i]
        has(f) == f \in DOMAIN entry.value
    IN  [weekday |-> entry.key,
         start_time |-> IF has("start_time") THEN entry.value["start_time"] ELSE "00:00",
         end_time |-> IF has("end_time") THEN entry.value["end_time"] ELSE "00:00",
         variables |->
            [data |-> IF has("variables") THEN entry.value["variables"] ELSE EmptyDict,
             parent_data |-> a.data["variables"]],
         week_offset |-> a.week_offset,
         locale |-> a.locale]

\* C5: the tasks built so far are those of the first entries of
\* document.week_tasks, in the declared order, each with its entry's name
\* and times (00:00 when absent), the render's week_offset and locale and a
\* lookup map over the entry's variables that falls back to the document's
\* variables; the template receives exactly one task per entry.
C5_OneTaskPerEntryInOrder ==
    \A t \in DOMAIN th :
        (Rendering(t) /\ "week_tasks" \in DOMAIN th[t].args.data) =>
            LET a == th[t].args
            IN  /\ Len(th[t].tasks) <= Len(a.data["week_tasks"])
                /\ \A i \in 1..Len(th[t].tasks) : th[t].tasks[i] = ExpectedTask(a, i)
                /\ th[t].engine => Len(th[t].tasks) = Len(a.data["week_tasks"])

\* the engine has received two tasks, sunday declared before monday, the
\* first with its own times and variables and the second with the defaults
C5_Witness ==
    /\ Rendering(1)
    /\ th[1].engine
    /\ Len(th[1].tasks) = 2
    /\ th[1].tasks[1].weekday = "sunday" /\ th[1].tasks[2].weekday = "monday"
    /\ th[1].tasks[1].start_time = "09:00" /\ th[1].tasks[2].start_time = "00:00"
    /\ th[1].tasks[1].variables.data = [b |-> 2]
    /\ th[1].tasks[2].variables = [data |-> EmptyDict, parent_data |-> [a |-> 1, b |-> 1]]
    /\ th[1].tasks[2].week_offset = 0 - 1
    /\ th[1].tasks[2].locale = "es_ES"

\* the expression at position j of the call's template looks up a key that
\* neither the task's variables nor the document's variables hold
KeyNotFoundAt(self, j) ==
    LET item == self.args.template[j]
    IN  /\ item.op = "var"
        /\ item.i <= Len(self.tasks)
        /\ item.key \notin DOMAIN self.tasks[item.i].variables.data
        /\ item.key \notin DOMAIN self.tasks[item.i].variables.parent_data

\* C7: render is all-or-nothing: a call ends either raised or returned,
\* never both, and a failure (missing field, unknown weekday, unavailable
\* locale, key not found) aborts the render where it happens, so the engine
\* never moves past an expression whose lookup found no key and the text
\* returned covers every expression of the template.
C7_AllOrNothing ==
    \A t \in DOMAIN th :
        Rendering(t) =>
            /\ th[t].res.kind = "raise" <=> th[t].pc = "raised"
            /\ th[t].res.kind = "value" <=> th[t].pc = "returned"
            /\ th[t].res.kind = "value" =>
                  /\ th[t].res.value = th[t].out
                  /\ Len(th[t].out) = Len(th[t].args.template)
            /\ \A j \in 1..(th[t].pos - 1) : ~KeyNotFoundAt(th[t], j)

----------------------------------------------------------------------------
(* render_template called again and again by one thread *)

SeqDocuments ==
    {[variables |-> [a |-> 1, b |-> 1],
      week_tasks |-> <<[key |-> "monday", value |-> EmptyDict],
                       [key |-> "sunday", value |-> FullDescriptor]>>],
     [variables |-> [a |-> 1, b |-> 1],
      week_tasks |-> <<[key |-> "Monday", value |-> EmptyDict]>>]}

SeqTemplates ==
    {<<Attr(1, "formatted_date")>>,
     <<Attr(1, "weekday"), Var(1, "b")>>,
     <<Attr(2, "formatted_date"), Attr(1, "formatted_date")>>}

SeqArgs ==
    [template : SeqTemplates, data : SeqDocuments, locale : Locales,
     week_offset : {0, 1}]

InitSeq ==
    /\ today = TodayBase
    /\ procLocale = "C"
    /\ th = [t \in {1} |-> IdleThread]
    /\ ref = None
    /\ dd = DeferredDict(EmptyDict, EmptyDict)
    /\ got = None

CallSeq(t) ==
    /\ th[t].pc = "idle"
    /\ \E a \in SeqArgs : Call(t, a)

\* the caller takes the outcome and drops the call
Done(t) ==
    /\ th[t].pc \in {"returned", "raised"}
    /\ th' = [th EXCEPT ![t] = IdleThread]
    /\ UNCHANGED <<procLocale, today, ref, dd, got>>

\* the caller keeps the outcome of a call that began and ended on one day
Remember(t) ==
    /\ th[t].pc \in {"returned", "raised"}
    /\ ref = None
    /\ today = th[t].day0
    /\ ref' = [kind |-> "render", args |-> th[t].args, day |-> th[t].day0,
               entry |-> th[t].entry, res |-> th[t].res]
    /\ th' = [th EXCEPT ![t] = IdleThread]
    /\ UNCHANGED <<procLocale, today, dd, got>>

\* midnight
Tick ==
    /\ today < TodayBase + MaxTicks
    /\ today' = today + 1
    /\ UNCHANGED <<procLocale, th, ref, dd, got>>

NextSeq ==
    \/ CallSeq(1) \/ Done(1) \/ Remember(1) \/ Tick
    \/ RenderWeekTasks(1) \/ RenderConstruct(1) \/ RenderVariables(1)
    \/ RenderCompile(1) \/ RenderItem(1) \/ RenderRead(1) \/ RenderReturn(1)
    \/ FdDate(1) \/ FdSetLocale(1) \/ FdStrftime(1) \/ FdReturn(1)

SpecSeq == InitSeq /\ [][NextSeq]_vars

\* C6: a render that ran within one day ends as an earlier render of the
\* same template, document, locale and week offset on that day ended, with
\* the same text or the same failure, whatever the process locale was when
\* either began.
C6_SameDaySameOutput ==
    \A t \in DOMAIN th :
        (/\ Rendering(t)
         /\ th[t].pc \in {"returned", "raised"}
         /\ ref # None
         /\ ref.args = th[t].args
         /\ ref.day = th[t].day0
         /\ today = th[t].day0) =>
            th[t].res = ref.res

\* an en_US render has returned a date a second time on the same day, this
\* time begun under the locale an es_ES render left behind
C6_Witness ==
    /\ ref # None
    /\ Rendering(1)
    /\ th[1].pc = "returned"
    /\ ref.args = th[1].args
    /\ ref.day = th[1].day0
    /\ today = th[1].day0
    /\ th[1].args.locale = "en_US"
    /\ ref.entry = "C"
    /\ th[1].entry = "es_ES"
    /\ th[1].used = {<<"en_US", "en_US">>}
    /\ Len(th[1].out) = 2

\* the process locale holds the locale of a call's tasks from the first
\* successful setlocale of the call on
HasSetLocale(self) == self.pc \in {"fd_strftime", "fd_return"} \/ self.used # {}

\* C8: once a formatted_date of the call has set the locale, the process
\* locale is the locale of the task read and stays so to the end of the call
\* and after it, whatever it was before; until then (constructing the tasks,
\* evaluating expressions that read no formatted_date, reads that fail
\* before setlocale) the process locale is the one the call began under.
C8_LocaleSetNeverRestored ==
    \A t \in DOMAIN th :
        Rendering(t) =>
            /\ HasSetLocale(th[t]) =>
                  /\ procLocale = th[t].args.locale
                  /\ \A p \in th[t].used : procLocale = p[1]
                  /\ "date" \in DOMAIN th[t].fd =>
                        procLocale = th[t].tasks[th[t].fd.i].locale
            /\ ~HasSetLocale(th[t]) => procLocale = th[t].entry

\* a render that began under en_US and read a Spanish date has returned and
\* left the process in es_ES
C8_Witness ==
    /\ Rendering(1)
    /\ th[1].pc = "returned"
    /\ th[1].entry = "en_US"
    /\ th[1].used = {<<"es_ES", "es_ES">>}
    /\ procLocale = "es_ES"

----------------------------------------------------------------------------
(* Two threads of one process, each calling render_template once *)

ConcThreads == {1, 2}

ConcArgs ==
    [template : SeqTemplates, data : SeqDocuments, locale : {"en_US", "es_ES"},
     week_offset : {0}]

InitConc ==
    /\ today = TodayBase
    /\ procLocale = "C"
    /\ th = [t \in ConcThreads |-> IdleThread]
    /\ ref = None
    /\ dd = DeferredDict(EmptyDict, EmptyDict)
    /\ got = None

CallConc(t) ==
    /\ th[t].pc = "idle"
    /\ \E a \in ConcArgs : Call(t, a)

NextConc ==
    \E t \in ConcThreads :
        \/ CallConc(t)
        \/ RenderWeekTasks(t) \/ RenderConstruct(t) \/ RenderVariables(t)
        \/ RenderCompile(t) \/ RenderItem(t) \/ RenderRead(t) \/ RenderReturn(t)
        \/ FdDate(t) \/ FdSetLocale(t) \/ FdStrftime(t) \/ FdReturn(t)

SpecConc == InitConc /\ [][NextConc]_vars

\* the dates in the text a call has produced so far
DatesIn(out) == {out[j] : j \in {i \in 1..Len(out) : out[i].kind = "date"}}

\* C9: a render during which no other render was in flight formats every
\* date under the locale of the date's own task: the process locale at
\* strftime is the task's locale and the text is in its language.  With two
\* renders of different locales in flight together the set-locale and format
\* steps interleave, and a date can be formatted under the other render's
\* locale (C9_Witness).
C9_OwnLocaleWhenAlone ==
    \A t \in DOMAIN th :
        (Rendering(t) /\ th[t].alone) =>
            /\ \A p \in th[t].used : p[2] = p[1]
            /\ \A d \in DatesIn(th[t].out) : d.lang = Lang(th[t].args.locale)
            /\ th[t].pc = "fd_return" => th[t].fd.text.lang = Lang(th[t].args.locale)

\* thread 1 renders in es_ES while thread 2 renders in en_US, and thread 1
\* has returned a date formatted under en_US, in English
C9_Witness ==
    /\ Rendering(1) /\ Rendering(2)
    /\ th[1].args.locale = "es_ES"
    /\ th[2].args.locale = "en_US"
    /\ ~th[1].alone
    /\ th[1].pc = "returned"
    /\ <<"es_ES", "en_US">> \in th[1].used
    /\ \E d \in DatesIn(th[1].res.value) : d.lang = "en"

====
